---- MODULE Spec2Model ----
(***************************************************************************)
(* A model of core/noisemodel/trunchen.py: MultiFilterASTs, the multi-band *)
(* artificial-star-test (AST) covariance noise model.                      *)
(*                                                                         *)
(* Number representation.  The program computes in IEEE floating point; the*)
(* model computes the same expressions exactly:                            *)
(*   - a rational is <<n, d>> with d > 0 and gcd(n, d) = 1;                *)
(*   - a surd [sgn |-> s, sq |-> q] is the real s * sqrt(q), s in -1..1,   *)
(*     q a rational >= 0 (np.std, and a quotient by a product of np.std);  *)
(*   - input magnitudes (<FILTER>_IN) are stored in units of 2.5 mag, so   *)
(*     that 10^(-0.4*mag) is the exact power of ten Pow10(-IN);            *)
(*   - recovered magnitudes (<FILTER>_VEGA) are in mag.                    *)
(* The code is Python 2 (from __future__ import print_function; no         *)
(* division import): "/" on two ints is floor division.                    *)
(***************************************************************************)
EXTENDS Integers, Sequences, FiniteSets, TLC

VARIABLES
    data,           \* self.data: the AST table, a sequence of rows
    filters,        \* self.filters
    vega_flux,      \* self.vega_flux
    cov_matrices,   \* self._cov_matrices
    biases,         \* self._biases
    corr_matrices,  \* self._corr_matrices
    input_fluxes,   \* self._input_fluxes
    kdtree,         \* self._kdtree
    results,        \* the value returned by the last direct call
    pc,             \* where the running operation is
    sedgrid,        \* __call__'s argument: sedgrid.seds
    i,              \* __call__'s loop index
    out,            \* __call__'s output arrays
    loc,            \* __call__'s locals of the row last processed
    raised          \* the exception that ended the operation, or "none"

vars == <<data, filters, vega_flux, cov_matrices, biases, corr_matrices,
          input_fluxes, kdtree, results, pc, sedgrid, i, out, loc, raised>>

(***************************************************************************)
(* Exact arithmetic                                                        *)
(***************************************************************************)
Abs(x) == IF x < 0 THEN -x ELSE x

Sign(x) == IF x < 0 THEN -1 ELSE IF x = 0 THEN 0 ELSE 1

RECURSIVE GCD(_, _)
GCD(a, b) == IF b = 0 THEN a ELSE GCD(b, a % b)

RNorm(n, d) ==
    LET g == GCD(Abs(n), Abs(d))
        s == IF d < 0 THEN -1 ELSE 1
    IN  <<(s * n) \div g, (s * d) \div g>>

R(n) == <<n, 1>>

\* the IEEE specials: inf is <<1, 0>> and nan is <<0, 0>>
Inf == <<1, 0>>

NaN == <<0, 0>>

IsFinite(x) == x[2] # 0

\* over the least common denominator
RAddOver(a, b, g) ==
    RNorm(a[1] * (b[2] \div g) + b[1] * (a[2] \div g), (a[2] \div g) * b[2])

\* a + b for rationals, nan or (positive) inf
RAdd(a, b) ==
    IF a = NaN \/ b = NaN THEN NaN
    ELSE IF a = Inf \/ b = Inf THEN Inf
    ELSE RAddOver(a, b, GCD(a[2], b[2]))

\* a - b for a finite b
RSub(a, b) == RAdd(a, <<-b[1], b[2]>>)

RMulOver(a, b, g1, g2) ==
    RNorm((a[1] \div g1) * (b[1] \div g2), (a[2] \div g2) * (b[2] \div g1))

\* a * b for rationals, nan or (positive) inf
RMul(a, b) ==
    IF a = NaN \/ b = NaN THEN NaN
    ELSE IF a = Inf \/ b = Inf THEN (IF a[1] = 0 \/ b[1] = 0 THEN NaN ELSE Inf)
    ELSE RMulOver(a, b, GCD(Abs(a[1]), b[2]), GCD(Abs(b[1]), a[2]))

RDiv(a, b) == RMul(a, RNorm(b[2], b[1]))

RSign(a) == Sign(a[1])

RLess(a, b) == a[1] * b[2] < b[1] * a[2]

\* the sum of s[lo..hi], by halves
RECURSIVE RSumOn(_, _, _)
RSumOn(s, lo, hi) ==
    IF lo > hi THEN R(0)
    ELSE IF lo = hi THEN s[lo]
    ELSE RAdd(RSumOn(s, lo, (lo + hi) \div 2), RSumOn(s, ((lo + hi) \div 2) + 1, hi))

RSum(s) == RSumOn(s, 1, Len(s))

RECURSIVE Pow10(_)
Pow10(e) == IF e = 0 THEN 1 ELSE 10 * Pow10(e - 1)

\* s * sqrt(q)
Surd(s, q) == IF s = 0 \/ q[1] = 0 THEN [sgn |-> 0, sq |-> R(0)]
              ELSE [sgn |-> s, sq |-> q]

SurdMul(a, b) == Surd(a.sgn * b.sgn, RMul(a.sq, b.sq))

\* the rational x divided by the surd s (s # 0)
RDivSurd(x, s) == Surd(RSign(x) * s.sgn, RDiv(RMul(x, x), s.sq))

Range(s) == {s[k] : k \in DOMAIN s}

\* np.where(mask): the positions where mask holds, increasing
Where(mask) == SelectSeq([k \in 1..Len(mask) |-> k], LAMBDA k : mask[k])

(***************************************************************************)
(* Matrices of rationals: M[r][c]                                          *)
(***************************************************************************)
RemoveAt(s, k) == [j \in 1..(Len(s) - 1) |-> IF j < k THEN s[j] ELSE s[j + 1]]

\* the determinant of the submatrix on the given rows and columns (Laplace
\* expansion along the first row)
RECURSIVE DetOn(_, _, _)
DetOn(M, rows, cols) ==
    IF rows = <<>> THEN R(1)
    ELSE RSum([k \in 1..Len(cols) |->
            RMul(RMul(R(IF k % 2 = 1 THEN 1 ELSE -1), M[rows[1]][cols[k]]),
                 DetOn(M, Tail(rows), RemoveAt(cols, k)))])

Det(M, n) == DetOn(M, [k \in 1..n |-> k], [k \in 1..n |-> k])

\* the inverse of a matrix with a non-zero determinant: adjugate / determinant
AdjugateOver(M, n, all, det) ==
    [r \in 1..n |-> [c \in 1..n |->
        RDiv(RMul(R(IF (r + c) % 2 = 0 THEN 1 ELSE -1),
                  DetOn(M, RemoveAt(all, c), RemoveAt(all, r))),
             det)]]

Inverse(M, n) == AdjugateOver(M, n, [k \in 1..n |-> k], Det(M, n))

(***************************************************************************)
(* IEEE division and sums                                                  *)
(***************************************************************************)
\* 1.0 / x for x >= 0 or inf
XRecip(x) == IF x = NaN THEN NaN ELSE IF x = Inf THEN R(0)
             ELSE IF x[1] = 0 THEN Inf ELSE RNorm(x[2], x[1])

\* np.sum of values that are >= 0, inf or nan
XSum(s) == IF \E k \in DOMAIN s : s[k] = NaN THEN NaN
           ELSE IF \E k \in DOMAIN s : s[k] = Inf THEN Inf
           ELSE RSum(s)

\* x / y for x, y >= 0, inf or nan
XDiv(x, y) ==
    IF x = NaN \/ y = NaN THEN NaN
    ELSE IF x = Inf THEN (IF y = Inf THEN NaN ELSE Inf)
    ELSE IF y = Inf THEN R(0)
    ELSE IF y[1] = 0 THEN (IF x[1] = 0 THEN NaN ELSE Inf)
    ELSE RDiv(x, y)

\* the square root of a natural number that is a perfect square
ISqrt(n) == CHOOSE r \in 0..n : r * r = n

(***************************************************************************)
(* Program constants                                                       *)
(***************************************************************************)
\* asts[cfilter+'_VEGA'][k] < 90: a recovered magnitude of 90 or more means
\* "not recovered"
NotRecovered == 90

\* n_indxs <= 5 / n_asts > 5: the most instances that are still too few
MinAsts == 5

\* self._kdtree.query(np.log10(cur_flux),10)
NNeighbors == 10

\* n_models = 10, the assignment before the loop of __call__
DebugNModels == 10

(***************************************************************************)
(* The AST table.  A row is one artificial star: for each filter f the     *)
(* columns f_IN (input magnitude, units of 2.5 mag), f_VEGA (recovered     *)
(* magnitude) and f_RATE (recovered flux).                                 *)
(***************************************************************************)
FilterNames == {"F1", "F2", "F3"}

\* np.power(10.0, -0.4*mag) for mag stored in units of 2.5 mag
InFlux(m) == IF m <= 0 THEN R(Pow10(-m)) ELSE RNorm(1, Pow10(m))

\* np.log10 of a positive rational that is an exact power of ten
Log10(q) == IF q[2] = 1 THEN CHOOSE e \in 0..9 : Pow10(e) = q[1]
            ELSE -(CHOOSE e \in 0..9 : Pow10(e) = q[2])

(***************************************************************************)
(* _calc_ast_cov(indxs, filters, return_all=True)                          *)
(***************************************************************************)
\* lines 99-106: per instance, the number of filters it was recovered in
CountGood(asts, fl) ==
    [k \in 1..Len(asts) |->
        Cardinality({c \in 1..Len(fl) : asts[k].col_VEGA[fl[c]] < NotRecovered})]

\* line 108: indxs, = np.where(gtindxs > 0)
UsableIndxs(gtindxs) == Where([k \in 1..Len(gtindxs) |-> gtindxs[k] > 0])

\* the test with the comparison n_indxs < 5
TooFewBelowFive(n_indxs) == n_indxs < MinAsts

\* line 110: if n_indxs <= 5: return False
TooFew(n_indxs) == n_indxs <= MinAsts

\* lines 126-127: asts[cfilter+'_RATE'][indxs] - np.power(10.0,-0.4*asts[cfilter+'_IN'][indxs])
Diffs(asts, indxs, f) ==
    [ci \in 1..Len(indxs) |->
        RSub(R(asts[indxs[ci]].col_RATE[f]), InFlux(asts[indxs[ci]].col_IN[f]))]

\* line 129: np.mean
NpMean(x) == RDiv(RSum(x), R(Len(x)))

\* line 130: np.std, the population form (ddof = 0): sqrt(mean(|x - mean|^2))
NpStd(x) ==
    LET mu == NpMean(x)
        sq == [k \in 1..Len(x) |-> RMul(RSub(x[k], mu), RSub(x[k], mu))]
    IN  Surd(1, RDiv(RSum(sq), R(Len(x))))

\* lines 135-137: the sum accumulated into cov_matrix[ck,dk]
CovSum(dc, dd, bc, bd, n_indxs) ==
    RSum([ci \in 1..n_indxs |-> RMul(RSub(dc[ci], bc), RSub(dd[ci], bd))])

\* the population form, cov_matrix /= n_indxs
CovNormPopulation(n_indxs) == n_indxs

\* line 138: cov_matrix /= (n_indxs-1)
CovNorm(n_indxs) == n_indxs - 1

\* lines 144-147: one entry of the correlation matrix
CorrEntry(cov, sc, sd) ==
    IF SurdMul(sc, sd).sgn > 0 THEN RDivSurd(cov, SurdMul(sc, sd))
    ELSE Surd(0, R(0))

False == [ok |-> FALSE]

\* lines 141-152: the correlation matrix, and the tuple returned
EstReturn(fl, imags, diffs, bias, stddevs, cov_matrix) ==
    [ok |-> TRUE, cov_matrix |-> cov_matrix, biases |-> bias,
     stddevs |-> stddevs,
     corr_matrix |-> [ck \in 1..Len(fl) |-> [dk \in 1..Len(fl) |->
        CorrEntry(cov_matrix[ck][dk], stddevs[ck], stddevs[dk])]],
     diffs |-> diffs, imags |-> imags]

\* lines 132-138: the covariance matrix
EstCov(fl, imags, diffs, bias, stddevs, n_indxs) ==
    EstReturn(fl, imags, diffs, bias, stddevs,
        [ck \in 1..Len(fl) |-> [dk \in 1..Len(fl) |->
            RDiv(CovSum(diffs[ck], diffs[dk], bias[ck], bias[dk], n_indxs),
                 R(CovNorm(n_indxs)))]])

\* lines 128-130: the biases and standard deviations
EstMoments(fl, imags, diffs, n_indxs) ==
    EstCov(fl, imags, diffs,
           [ck \in 1..Len(fl) |-> NpMean(diffs[ck])],
           [ck \in 1..Len(fl) |-> NpStd(diffs[ck])], n_indxs)

\* lines 108-127: the usable instances, their input magnitudes and differences
EstUsableRows(asts, indxs, fl) ==
    IF TooFew(Len(indxs)) THEN False
    ELSE EstMoments(fl,
            [ck \in 1..Len(fl) |-> asts[indxs[1]].col_IN[fl[ck]]],
            [ck \in 1..Len(fl) |-> Diffs(asts, indxs, fl[ck])],
            Len(indxs))

\* lines 95-106: asts = self.data[indxs], and the recovery counts
EstRows(asts, fl) == EstUsableRows(asts, UsableIndxs(CountGood(asts, fl)), fl)

calc_ast_cov(indxs, fl) == EstRows([k \in 1..Len(indxs) |-> data[indxs[k]]], fl)

(***************************************************************************)
(* Bounds of the inputs                                                    *)
(***************************************************************************)
\* the most AST instances of one model in a table
MaxAsts == 7

\* the most instances of one model that are recovered in no filter
MaxUnrec == 2

(***************************************************************************)
(* The AST tables the model draws its inputs from.  A table is the         *)
(* concatenation of its model groups; a group g is described by            *)
(*   n: its number of instances, u: how many of them (the first) are       *)
(*   recovered in no filter, h: how many (the next) are recovered in F1    *)
(*   only, p: the noise pattern of the recovered fluxes.                   *)
(* The input magnitude of group g is 0 in F1 and 1-g in F2 and F3.         *)
(***************************************************************************)
Patterns == 1..4

Noise(p, j, f) ==
    CASE p = 1 -> 0
      [] p = 2 -> (IF f = "F1" THEN j % 2 ELSE IF f = "F2" THEN j % 3
                   ELSE (j \div 2) % 2)
      [] p = 3 -> j % 2
      [] OTHER -> (IF f = "F1" THEN j % 2 ELSE IF f = "F2" THEN 0 ELSE -(j % 2))

INMag(g, f) == IF f = "F1" THEN 0 ELSE 1 - g

Descs(maxn, maxu, pats) ==
    {d \in [n : 0..maxn, u : 0..maxu, h : 0..1, p : pats] : d.u + d.h <= d.n}

MkRow(g, d, j) ==
    [col_IN |-> [f \in FilterNames |-> INMag(g, f)],
     col_VEGA |-> [f \in FilterNames |->
        IF j <= d.u \/ (j <= d.u + d.h /\ f # "F1") THEN 99 ELSE 20],
     col_RATE |-> [f \in FilterNames |->
        IF j <= d.u \/ (j <= d.u + d.h /\ f # "F1") THEN 0
        ELSE Pow10(-INMag(g, f)) + Noise(d.p, j, f)]]

MkGroup(g, d) == [j \in 1..d.n |-> MkRow(g, d, j)]

RECURSIVE MkTableFrom(_, _)
MkTableFrom(g, ds) ==
    IF ds = <<>> THEN <<>>
    ELSE MkGroup(g, Head(ds)) \o MkTableFrom(g + 1, Tail(ds))

MkTable(ds) == MkTableFrom(1, ds)

\* the filter lists the estimator is called with
EstFilterLists == {<<"F1">>, <<"F1", "F2">>, <<"F2", "F1">>, <<"F1", "F2", "F3">>}

\* a two-row group of another model, so that indxs is not the whole table
Decoy == [n |-> 2, u |-> 0, h |-> 0, p |-> 1]

EstTables == {MkTable(<<Decoy, d>>) : d \in Descs(MaxAsts, MaxUnrec, Patterns)}

Unused == [unused |-> TRUE]

\* np.unique(self.data[filtername]): the distinct values, increasing
RECURSIVE SortedSeq(_)
SortedSeq(S) ==
    IF S = {} THEN <<>>
    ELSE LET m == CHOOSE x \in S : \A y \in S : x <= y
         IN  <<m>> \o SortedSeq(S \ {m})

NpUnique(col) == SortedSeq(Range(col))

\* indxs, = np.where(self.data[filtername] == uvals[i])
GroupIndxs(filtername, uval) ==
    Where([k \in 1..Len(data) |-> data[k].col_IN[filtername] = uval])

(***************************************************************************)
(* SpecEst: the Per-Model Statistics Estimator called on one model group   *)
(***************************************************************************)
InitEst ==
    /\ data \in EstTables
    /\ filters = Unused /\ vega_flux = Unused
    /\ cov_matrices = Unused /\ biases = Unused /\ corr_matrices = Unused
    /\ input_fluxes = Unused /\ kdtree = Unused
    /\ results = Unused
    /\ pc = "idle"
    /\ sedgrid = Unused /\ i = 0 /\ out = Unused /\ loc = Unused
    /\ raised = "none"

\* results = self._calc_ast_cov(indxs, filters, return_all=True) for the
\* instances of one model
Estimate ==
    /\ pc = "idle"
    /\ \E fl \in EstFilterLists :
       \E u \in Range(NpUnique([k \in 1..Len(data) |-> data[k].col_IN[fl[Len(fl)]]])) :
          LET indxs == GroupIndxs(fl[Len(fl)], u)
          IN  /\ results' = calc_ast_cov(indxs, fl)
              /\ loc' = [indxs |-> indxs, filters |-> fl]
    /\ pc' = "done"
    /\ UNCHANGED <<data, filters, vega_flux, cov_matrices, biases, corr_matrices,
                   input_fluxes, kdtree, sedgrid, i, out, raised>>

NextEst == Estimate

SpecEst == InitEst /\ [][NextEst]_vars

(***************************************************************************)
(* Claims about the Per-Model Statistics Estimator                         *)
(***************************************************************************)
RECURSIVE SetToSeq(_)
SetToSeq(S) ==
    IF S = {} THEN <<>>
    ELSE LET x == CHOOSE y \in S : TRUE IN <<x>> \o SetToSeq(S \ {x})

\* the instances of the call that are recovered in at least one filter
EstUsable ==
    {k \in Range(loc.indxs) :
        \E f \in Range(loc.filters) : data[k].col_VEGA[f] < NotRecovered}

EstN == Len(loc.filters)

\* the flux difference of instance k in the ck-th filter
EstDiff(k, ck) ==
    RSub(R(data[k].col_RATE[loc.filters[ck]]),
         InFlux(data[k].col_IN[loc.filters[ck]]))

\* the mean flux difference of the usable instances in the ck-th filter
EstBias(ck) ==
    LET us == SetToSeq(EstUsable)
    IN  RDiv(RSum([x \in 1..Len(us) |-> EstDiff(us[x], ck)]), R(Len(us)))

\* the unbiased sample covariance of the usable instances
EstSampleCov(ck, dk) ==
    LET us == SetToSeq(EstUsable)
    IN  RDiv(RSum([x \in 1..Len(us) |->
                RMul(RSub(EstDiff(us[x], ck), EstBias(ck)),
                     RSub(EstDiff(us[x], dk), EstBias(dk)))]),
             R(Cardinality(EstUsable) - 1))

\* every principal minor is >= 0
IsPSD(M, n) ==
    \A S \in (SUBSET (1..n)) \ {{}} :
        LET idx == SortedSeq(S) IN RSign(DetOn(M, idx, idx)) >= 0

EstCalled == pc = "done" /\ loc # Unused /\ "indxs" \in DOMAIN loc

\* C5: for every non-rejected model group and every filter, the diagonal
\* entry of the correlation matrix is 1 when the filter's standard deviation
\* is strictly positive and 0 when it is 0.
C5_CorrDiagonalIsOne ==
    (EstCalled /\ results.ok) =>
        \A ck \in 1..EstN :
            results.corr_matrix[ck][ck] =
                (IF results.stddevs[ck].sgn > 0 THEN Surd(1, R(1)) ELSE Surd(0, R(0)))

\* C6: for every model group with at least 6 usable instances the estimator
\* returns a covariance matrix that is symmetric and positive semi-definite,
\* each entry (i,j) being the sum over exactly the K usable instances of
\* (diff_i - bias_i)(diff_j - bias_j) divided by K-1.
C6_CovIsSampleCovariance ==
    (EstCalled /\ Cardinality(EstUsable) >= 6) =>
        /\ results.ok
        /\ \A ck, dk \in 1..EstN :
            /\ results.cov_matrix[ck][dk] = results.cov_matrix[dk][ck]
            /\ results.cov_matrix[ck][dk] = EstSampleCov(ck, dk)
        /\ IsPSD(results.cov_matrix, EstN)

\* a group of 6 or more usable instances with an instance recovered in no
\* filter, estimated in two or more filters with a non-zero covariance
C6_Witness ==
    /\ EstCalled
    /\ Cardinality(EstUsable) >= 6
    /\ Cardinality(EstUsable) < Len(loc.indxs)
    /\ EstN >= 2
    /\ results.ok
    /\ results.cov_matrix[1][2] # R(0)

\* C11: the estimator returns False exactly when fewer than 6 of the group's
\* rows are recovered in at least one filter; otherwise it returns an N x N
\* covariance matrix and a bias vector of length N computed over exactly the
\* usable rows, the rows recovered in no filter contributing to neither.
C11_RejectedIffFewerThanSixUsable ==
    EstCalled =>
        /\ results.ok <=> Cardinality(EstUsable) >= 6
        /\ results.ok =>
              /\ Len(results.biases) = EstN
              /\ Len(results.cov_matrix) = EstN
              /\ \A ck \in 1..EstN :
                    /\ Len(results.cov_matrix[ck]) = EstN
                    /\ Len(results.diffs[ck]) = Cardinality(EstUsable)
                    /\ results.biases[ck] = EstBias(ck)
                    /\ \A dk \in 1..EstN :
                          results.cov_matrix[ck][dk] = EstSampleCov(ck, dk)

\* a group of 6 or more rows of which exactly 5 are recovered in some filter
\* is rejected
C11_Witness ==
    /\ EstCalled
    /\ Len(loc.indxs) >= 6
    /\ Cardinality(EstUsable) = 5
    /\ ~results.ok

(***************************************************************************)
(* _calc_all_ast_cov(filters)                                              *)
(*                                                                         *)
(* The four output arrays are allocated with np.empty: a cell the loop     *)
(* never assigns holds whatever the memory held.  The model fills the      *)
(* arrays of one call with one value e, drawn from EmptyFills.             *)
(***************************************************************************)
EmptyFills == {0, -1}

\* line 209: if n_asts > 5
EnoughRows(n_asts) == n_asts > MinAsts

\* the estimator was not called
NotCalled == [ok |-> FALSE, called |-> FALSE]

\* lines 206-211: the estimator's result for the model with these instances
ModelResult(indxs, fl) ==
    IF EnoughRows(Len(indxs)) THEN calc_ast_cov(indxs, fl) ELSE NotCalled

\* lines 198, 209-218: good_asts[i] after the loop body; it starts True and
\* only the branch of a rejecting estimator clears it
GoodAst(res) == IF res = NotCalled THEN TRUE ELSE res.ok

\* lines 191-194, 212-216: row i of the four arrays after the loop body
AstRow(res, n_filters, e) ==
    IF res.ok
    THEN [cov |-> res.cov_matrix, bias |-> res.biases,
          corr |-> res.corr_matrix, imags |-> res.imags]
    ELSE [cov |-> [ck \in 1..n_filters |-> [dk \in 1..n_filters |-> R(e)]],
          bias |-> [ck \in 1..n_filters |-> R(e)],
          corr |-> [ck \in 1..n_filters |-> [dk \in 1..n_filters |->
                    Surd(Sign(e), R(e * e))]],
          imags |-> [ck \in 1..n_filters |-> e]]

\* lines 220-223: the rows of the good models, stacked
Stacked(rows, indxs, n_filters) ==
    [cov_mats |-> [k \in 1..Len(indxs) |-> rows[indxs[k]].cov],
     biases |-> [k \in 1..Len(indxs) |-> rows[indxs[k]].bias],
     corr_mats |-> [k \in 1..Len(indxs) |-> rows[indxs[k]].corr],
     ifluxes |-> [k \in 1..Len(indxs) |->
        [ck \in 1..n_filters |-> InFlux(rows[indxs[k]].imags[ck])]]]

\* lines 204-218: the loop over the models
AllModels(res, n_filters, e) ==
    Stacked([m \in 1..Len(res) |-> AstRow(res[m], n_filters, e)],
            Where([m \in 1..Len(res) |-> GoodAst(res[m])]), n_filters)

\* lines 185-187: the models are the unique values of the last filter's input
\* magnitude
AllUnique(uvals, fl, e) ==
    AllModels([m \in 1..Len(uvals) |->
                  ModelResult(GroupIndxs(fl[Len(fl)], uvals[m]), fl)],
              Len(fl), e)

calc_all_ast_cov(fl, e) ==
    AllUnique(NpUnique([k \in 1..Len(data) |-> data[k].col_IN[fl[Len(fl)]]]), fl, e)

(***************************************************************************)
(* SpecAgg: the Bulk Statistics Aggregator called on a table               *)
(***************************************************************************)
AggFilterLists == {<<"F2">>, <<"F1", "F2">>, <<"F2", "F1">>}

AggTables ==
    {MkTable(<<d1, d2>>) :
        d1, d2 \in {d \in Descs(MaxAsts, MaxUnrec, {2}) : d.h = 0}}

InitAgg ==
    /\ data \in AggTables
    /\ filters = Unused /\ vega_flux = Unused
    /\ cov_matrices = Unused /\ biases = Unused /\ corr_matrices = Unused
    /\ input_fluxes = Unused /\ kdtree = Unused
    /\ results = Unused
    /\ pc = "idle"
    /\ sedgrid = Unused /\ i = 0 /\ out = Unused /\ loc = Unused
    /\ raised = "none"

\* results = self._calc_all_ast_cov(filters)
CalcAll ==
    /\ pc = "idle"
    /\ \E fl \in AggFilterLists, e \in EmptyFills :
          /\ results' = calc_all_ast_cov(fl, e)
          /\ loc' = [filters |-> fl, fill |-> e]
    /\ pc' = "done"
    /\ UNCHANGED <<data, filters, vega_flux, cov_matrices, biases, corr_matrices,
                   input_fluxes, kdtree, sedgrid, i, out, raised>>

NextAgg == CalcAll

SpecAgg == InitAgg /\ [][NextAgg]_vars

\* the values of the reference filter's input magnitude (the model groups)
AggGroups == {data[k].col_IN[loc.filters[Len(loc.filters)]] : k \in 1..Len(data)}

\* the instances of group u recovered in at least one filter
AggUsable(u) ==
    {k \in 1..Len(data) :
        /\ data[k].col_IN[loc.filters[Len(loc.filters)]] = u
        /\ \E f \in Range(loc.filters) : data[k].col_VEGA[f] < NotRecovered}

\* C1: after the aggregator has run, the stacked arrays hold exactly the model
\* groups with at least 6 usable instances: K is their number, and the input
\* flux of every returned row is that of such a group.
C1_OnlyGroupsWithSixUsable ==
    (pc = "done" /\ loc # Unused) =>
        /\ Len(results.cov_mats) =
              Cardinality({u \in AggGroups : Cardinality(AggUsable(u)) >= 6})
        /\ \A k \in 1..Len(results.ifluxes) :
              \E u \in AggGroups :
                 /\ Cardinality(AggUsable(u)) >= 6
                 /\ results.ifluxes[k][Len(loc.filters)] = InFlux(u)

(***************************************************************************)
(* The Grid Interpolator: process_asts, the k-d tree and __call__          *)
(***************************************************************************)
None == [none |-> TRUE]

\* an attribute that was never assigned
Unset == [unset |-> TRUE]

\* a cell of an np.empty array that was never assigned
Empty == [empty |-> TRUE]

\* Vega().getFlux(filters): the zero-point flux of a filter
VegaFluxOf(f) == 10

VegaFlux(fl) == [c \in 1..Len(fl) |-> VegaFluxOf(fl[c])]

\* cKDTree(np.log10(self._input_fluxes)): n points of dimension m
BuildKdTree(ifluxes, m) ==
    [pts |-> [k \in 1..Len(ifluxes) |-> [c \in 1..m |-> Log10(ifluxes[k][c])]],
     m |-> m, n |-> Len(ifluxes)]

\* the Euclidean distance of two points
Euclid(x, y) ==
    LET RECURSIVE SumSq(_)
        SumSq(c) == IF c = 0 THEN 0
                    ELSE (x[c] - y[c]) * (x[c] - y[c]) + SumSq(c - 1)
    IN  ISqrt(SumSq(Len(x)))

\* the points with distances d, nearest first (by index among equals)
SortByDistance(d) ==
    [r \in 1..Len(d) |->
        CHOOSE a \in 1..Len(d) :
            Cardinality({b \in 1..Len(d) : d[b] < d[a] \/ (d[b] = d[a] /\ b < a)}) = r - 1]

NearestFirst(tree, x) == SortByDistance([j \in 1..tree.n |-> Euclid(x, tree.pts[j])])

\* how many of the k requested neighbours exist
Found(n, k) == IF n < k THEN n ELSE k

\* the result of a query whose n existing neighbours are order, nearest first
KdResult(tree, x, k, order) ==
    [dist |-> [j \in 1..k |-> IF j <= Found(tree.n, k)
                              THEN R(Euclid(x, tree.pts[order[j]])) ELSE Inf],
     indxs |-> [j \in 1..k |-> IF j <= Found(tree.n, k)
                               THEN order[j] - 1 ELSE tree.n]]

\* cKDTree.query(x, k): the k nearest points' distances and (0-based) indices;
\* a neighbour that does not exist has distance inf and index n
KdQuery(tree, x, k) == KdResult(tree, x, k, NearestFirst(tree, x))

\* line 298: dist_weights = 1.0/dist
RecipDist(dist) == [j \in 1..Len(dist) |-> XRecip(dist[j])]

\* line 299: dist_weights /= np.sum(dist_weights)
DivideAll(w, total) == [j \in 1..Len(w) |-> XDiv(w[j], total)]

Normalized(w) == DivideAll(w, XSum(w))

\* lines 301-303: np.average(mats, axis=0, weights=w) of n x n matrices:
\* np.multiply(mats, w).sum(axis=0) / w.sum()
NpAverage(mats, w, n) ==
    [r \in 1..n |-> [c \in 1..n |->
        IF \E j \in 1..Len(w) : ~IsFinite(w[j]) THEN NaN
        ELSE RDiv(RSum([j \in 1..Len(w) |-> RMul(w[j], mats[j][r][c])]), RSum(w))]]

MatHasNaN(M, n) == \E r, c \in 1..n : M[r][c] = NaN

\* line 306: np.sqrt(np.diagonal(cur_cov_matrix))
SqrtDiagonal(M, n) ==
    [k \in 1..n |-> IF M[k][k] = NaN \/ RSign(M[k][k]) < 0
                    THEN [sgn |-> 0, sq |-> NaN] ELSE Surd(1, M[k][k])]

\* line 267: n_offdiag = (((n_filters**2)-n_filters)/2)
NOffdiag(n_filters) == ((n_filters * n_filters) - n_filters) \div 2

\* lines 315-319: the (k, l) visited by the two loops, in order (1-based)
RECURSIVE OffdiagVisits(_, _, _)
OffdiagVisits(n_filters, k, l) ==
    IF k > n_filters - 1 THEN <<>>
    ELSE IF l > n_filters THEN OffdiagVisits(n_filters, k + 1, k + 2)
    ELSE <<<<k, l>>>> \o OffdiagVisits(n_filters, k, l + 1)

\* the loop of lines 315-316 alone, without line 313
PackDiagLoopOnly(inv, n_filters) ==
    [k \in 1..n_filters |-> IF k \in 1..(n_filters - 1) THEN inv[k][k] ELSE Empty]

\* lines 313-316: row i of icov_diag after the packing
PackDiag(inv, n_filters) ==
    [k \in 1..n_filters |->
        IF k = n_filters THEN inv[n_filters][n_filters]
        ELSE IF k \in 1..(n_filters - 1) THEN inv[k][k] ELSE Empty]

\* lines 312, 317-319: row i of icov_offdiag (np.empty of length n_offdiag)
\* after the packing: the m-th visit writes cell m
PackOffdiag(inv, n_filters) ==
    LET visits == OffdiagVisits(n_filters, 1, 2)
    IN  [m \in 1..NOffdiag(n_filters) |->
            IF m <= Len(visits) THEN inv[visits[m][1]][visits[m][2]] ELSE Empty]

\* the packing writes past the end of the row
PackOverflows(n_filters) ==
    Len(OffdiagVisits(n_filters, 1, 2)) > NOffdiag(n_filters)

\* lines 325, 331: q_norm[i] = -0.5*det[1], det = np.linalg.slogdet(cov):
\* -0.5 * ln(absdet)
QNorm(cov, n) ==
    IF MatHasNaN(cov, n) THEN [nan |-> TRUE]
    ELSE [neg_half_ln |-> RNorm(Abs(Det(cov, n)[1]), Det(cov, n)[2])]

\* line 327: if det[0] <= 0 (the sign of a nan determinant is nan)
DetSignNotPositive(cov, n) == ~MatHasNaN(cov, n) /\ RSign(Det(cov, n)) <= 0

(***************************************************************************)
(* Spec: a MultiFilterASTs object, from its construction on                *)
(***************************************************************************)
\* the filter lists the object is constructed and processed with
CallFilterLists == {<<"F2">>, <<"F1", "F2">>}

\* The tables: 1, 3 or NNeighbors model groups, each with 6 or more rows.
\* "mixed": group g has 6 + g%2 instances, g%2 of them recovered in no
\* filter, with independent noise in the filters; "correlated": every group
\* has 6 instances whose noise is the same in all filters.
InterpDesc(kind, g) ==
    IF kind = "mixed" THEN [n |-> 6 + (g % 2), u |-> g % 2, h |-> 0, p |-> 2]
    ELSE [n |-> 6, u |-> 0, h |-> 0, p |-> 3]

InterpTables ==
    {MkTable([g \in 1..nG |-> InterpDesc(kind, g)]) :
        nG \in {1, 3, NNeighbors}, kind \in {"mixed", "correlated"}}

\* The model grids: M rows of ncols fluxes.  With the last column's filter
\* at coordinate a (log10 of the vega-normalized flux) and the others at 0,
\* row s (if any) is at a = 0, where the first model group is, and every
\* other row at a = -1.
MkGrid(M, ncols, s) ==
    [ncols |-> ncols,
     seds |-> [r \in 1..M |-> [c \in 1..ncols |->
        IF c = ncols /\ r # s THEN 1 ELSE 10]]]

Grids ==
    {MkGrid(M, ncols, s) :
        M \in {1, 2, DebugNModels, DebugNModels + 1}, ncols \in 1..2, s \in 0..2}

NoFrame == [cur_flux |-> Unset, dist |-> Unset, indxs |-> Unset,
            dist_weights |-> Unset, cur_cov_matrix |-> Unset,
            inv_cur_cov_matrix |-> Unset, warned |-> FALSE]

\* MultiFilterASTs(astfile, filters)
Init ==
    /\ data \in InterpTables
    /\ \E fl \in CallFilterLists : filters = fl /\ vega_flux = VegaFlux(fl)
    /\ cov_matrices = None /\ biases = None /\ corr_matrices = None
    /\ input_fluxes = None /\ kdtree = Unset
    /\ results = None
    /\ pc = "idle"
    /\ sedgrid = None /\ i = 0 /\ out = None /\ loc = NoFrame
    /\ raised = "none"

\* no operation is running
Ready == pc = "idle"

\* setFilters(filters)
SetFilters ==
    /\ Ready
    /\ \E fl \in CallFilterLists : filters' = fl /\ vega_flux' = VegaFlux(fl)
    /\ pc' = "idle" /\ raised' = "none"
    /\ sedgrid' = None /\ i' = 0 /\ out' = None /\ loc' = NoFrame
    /\ UNCHANGED <<data, cov_matrices, biases, corr_matrices, input_fluxes,
                   kdtree, results>>

\* process_asts(filters)
ProcessAsts ==
    /\ Ready
    /\ \E fl \in CallFilterLists, e \in EmptyFills :
          LET res == calc_all_ast_cov(fl, e)
          IN  /\ cov_matrices' = res.cov_mats
              /\ biases' = res.biases
              /\ corr_matrices' = res.corr_mats
              /\ input_fluxes' = res.ifluxes
              /\ kdtree' = BuildKdTree(res.ifluxes, Len(fl))
    /\ pc' = "idle" /\ raised' = "none"
    /\ sedgrid' = None /\ i' = 0 /\ out' = None /\ loc' = NoFrame
    /\ UNCHANGED <<data, filters, vega_flux, results>>

\* line 269: if n_filters != len(self.filters)
FilterCountDiffers(n_filters) == n_filters # Len(filters)

\* __call__(sedgrid), lines 265-271: the grid's filter count is refused
CallRefused ==
    /\ Ready
    /\ \E g \in Grids :
          /\ FilterCountDiffers(g.ncols)
          /\ sedgrid' = g
    /\ pc' = "raised" /\ raised' = "AttributeError: filters"
    /\ i' = 0 /\ out' = None /\ loc' = NoFrame
    /\ UNCHANGED <<data, filters, vega_flux, cov_matrices, biases,
                   corr_matrices, input_fluxes, kdtree, results>>

\* line 280: n_models = 10; range(n_models)
LoopBound(n_models) == DebugNModels

\* __call__(sedgrid), lines 265-284: the outputs are allocated
CallBegin ==
    /\ Ready
    /\ \E g \in Grids :
          /\ ~FilterCountDiffers(g.ncols)
          /\ sedgrid' = g
          /\ out' = [bias |-> [r \in 1..Len(g.seds) |-> Empty],
                     sigmas |-> [r \in 1..Len(g.seds) |-> Empty],
                     icov_diag |-> [r \in 1..Len(g.seds) |-> Empty],
                     icov_offdiag |-> [r \in 1..Len(g.seds) |-> Empty],
                     q_norm |-> [r \in 1..Len(g.seds) |-> Empty],
                     compl |-> [r \in 1..Len(g.seds) |-> Empty]]
    /\ pc' = "loop" /\ raised' = "none" /\ i' = 0 /\ loc' = NoFrame
    /\ UNCHANGED <<data, filters, vega_flux, cov_matrices, biases,
                   corr_matrices, input_fluxes, kdtree, results>>

Raise(exc, frame) ==
    /\ pc' = "raised" /\ raised' = exc /\ loc' = frame
    /\ UNCHANGED <<i>>

\* the neighbours' matrices cannot be selected: an index is out of bounds
BadIndex(indxs, n) == \E j \in 1..Len(indxs) : indxs[j] >= n

\* lines 286-299: row i (0-based) is normalized, the k-d tree queried and the
\* neighbours weighted
RowQuery ==
    /\ pc = "loop"
    /\ i < LoopBound(Len(sedgrid.seds))
    /\ IF i >= Len(sedgrid.seds)
       THEN Raise("IndexError: flux", NoFrame)
       ELSE LET cur_flux == [c \in 1..sedgrid.ncols |->
                                RNorm(sedgrid.seds[i + 1][c], vega_flux[c])]
            IN  IF kdtree = Unset
                THEN Raise("AttributeError: _kdtree",
                           [NoFrame EXCEPT !.cur_flux = cur_flux])
                ELSE IF kdtree.m # sedgrid.ncols
                THEN Raise("ValueError: query",
                           [NoFrame EXCEPT !.cur_flux = cur_flux])
                ELSE LET result ==
                            KdQuery(kdtree,
                                    [c \in 1..sedgrid.ncols |-> Log10(cur_flux[c])],
                                    NNeighbors)
                     IN  /\ loc' = [NoFrame EXCEPT
                                !.cur_flux = cur_flux,
                                !.dist = result.dist,
                                !.indxs = result.indxs,
                                !.dist_weights = Normalized(RecipDist(result.dist))]
                         /\ pc' = "queried"
                         /\ UNCHANGED <<i, raised>>
    /\ UNCHANGED <<data, filters, vega_flux, cov_matrices, biases,
                   corr_matrices, input_fluxes, kdtree, results, sedgrid, out>>

\* lines 301-306: the neighbours' matrices, their weighted average and sigmas[i,:]
RowAverage ==
    /\ pc = "queried"
    /\ IF BadIndex(loc.indxs, Len(cov_matrices))
       THEN Raise("IndexError: neighbour", loc) /\ UNCHANGED out
       ELSE LET cov == NpAverage(
                    [j \in 1..Len(loc.indxs) |-> cov_matrices[loc.indxs[j] + 1]],
                    loc.dist_weights, sedgrid.ncols)
            IN  /\ loc' = [loc EXCEPT !.cur_cov_matrix = cov]
                /\ out' = [out EXCEPT !.sigmas[i + 1] = SqrtDiagonal(cov, sedgrid.ncols)]
                /\ pc' = "averaged"
                /\ UNCHANGED <<i, raised>>
    /\ UNCHANGED <<data, filters, vega_flux, cov_matrices, biases,
                   corr_matrices, input_fluxes, kdtree, results, sedgrid>>

\* line 309: np.linalg.inv raises LinAlgError for a singular matrix; of a
\* matrix of nan LAPACK returns nan, or reports a singular matrix
InvRaises(cov, n, lapack) ==
    IF MatHasNaN(cov, n) THEN lapack = "LinAlgError" ELSE Det(cov, n) = R(0)

NpInv(cov, n) ==
    IF MatHasNaN(cov, n) THEN [r \in 1..n |-> [c \in 1..n |-> NaN]]
    ELSE Inverse(cov, n)

\* lines 309-331: the inverse, its packing and the normalization of row i
RowInvert ==
    /\ pc = "averaged"
    /\ \E lapack \in {"nan", "LinAlgError"} :
       IF InvRaises(loc.cur_cov_matrix, sedgrid.ncols, lapack)
       THEN Raise("LinAlgError", loc) /\ UNCHANGED out
       ELSE LET inv == NpInv(loc.cur_cov_matrix, sedgrid.ncols)
            IN  IF PackOverflows(sedgrid.ncols)
                THEN Raise("IndexError: icov_offdiag",
                           [loc EXCEPT !.inv_cur_cov_matrix = inv])
                     /\ UNCHANGED out
                ELSE /\ out' = [out EXCEPT
                            !.icov_diag[i + 1] = PackDiag(inv, sedgrid.ncols),
                            !.icov_offdiag[i + 1] = PackOffdiag(inv, sedgrid.ncols),
                            !.q_norm[i + 1] = QNorm(loc.cur_cov_matrix, sedgrid.ncols)]
                     /\ loc' = [loc EXCEPT
                            !.inv_cur_cov_matrix = inv,
                            !.warned = DetSignNotPositive(loc.cur_cov_matrix,
                                                          sedgrid.ncols)]
                     /\ i' = i + 1
                     /\ pc' = "loop"
                     /\ UNCHANGED raised
    /\ UNCHANGED <<data, filters, vega_flux, cov_matrices, biases,
                   corr_matrices, input_fluxes, kdtree, results, sedgrid>>

\* __call__, line 333: return (bias, sigma, compl, ...): the name sigma is
\* bound nowhere (the loop filled sigmas)
CallReturn ==
    /\ pc = "loop"
    /\ i >= LoopBound(Len(sedgrid.seds))
    /\ pc' = "raised" /\ raised' = "NameError: sigma"
    /\ UNCHANGED <<data, filters, vega_flux, cov_matrices, biases,
                   corr_matrices, input_fluxes, kdtree, results, sedgrid, i,
                   out, loc>>

\* the exception leaves __call__: its frame is gone, the object stays
CallExit ==
    /\ pc = "raised"
    /\ pc' = "idle" /\ raised' = "none"
    /\ sedgrid' = None /\ i' = 0 /\ out' = None /\ loc' = NoFrame
    /\ UNCHANGED <<data, filters, vega_flux, cov_matrices, biases,
                   corr_matrices, input_fluxes, kdtree, results>>

Next ==
    \/ SetFilters \/ ProcessAsts \/ CallRefused \/ CallBegin
    \/ RowQuery \/ RowAverage \/ RowInvert \/ CallReturn \/ CallExit

Spec == Init /\ [][Next]_vars

(***************************************************************************)
(* SpecPack: the packing of lines 267 and 311-319 applied to a symmetric   *)
(* matrix                                                                  *)
(***************************************************************************)
\* the most filters of a packed matrix
MaxPackFilters == 3

PackValues == {R(-1), R(0), R(2)}

UpperCells(n) == {rc \in (1..n) \X (1..n) : rc[1] <= rc[2]}

Symmetric(n, upper) ==
    [r \in 1..n |-> [c \in 1..n |-> IF r <= c THEN upper[<<r, c>>] ELSE upper[<<c, r>>]]]

InitPack ==
    /\ data = Unused /\ filters = Unused /\ vega_flux = Unused
    /\ cov_matrices = Unused /\ biases = Unused /\ corr_matrices = Unused
    /\ input_fluxes = Unused /\ kdtree = Unused /\ results = Unused
    /\ pc = "idle" /\ sedgrid = Unused /\ i = 0 /\ out = Unused
    /\ \E n \in 1..MaxPackFilters :
       \E upper \in [UpperCells(n) -> PackValues] :
          loc = [n_filters |-> n, inv_cur_cov_matrix |-> Symmetric(n, upper)]
    /\ raised = "none"

\* lines 311-319 for one row
Pack ==
    /\ pc = "idle"
    /\ IF PackOverflows(loc.n_filters)
       THEN raised' = "IndexError: icov_offdiag" /\ UNCHANGED out
       ELSE /\ out' = [icov_diag |-> PackDiag(loc.inv_cur_cov_matrix, loc.n_filters),
                       icov_offdiag |-> PackOffdiag(loc.inv_cur_cov_matrix, loc.n_filters)]
            /\ UNCHANGED raised
    /\ pc' = "done"
    /\ UNCHANGED <<data, filters, vega_flux, cov_matrices, biases, corr_matrices,
                   input_fluxes, kdtree, results, sedgrid, i, loc>>

NextPack == Pack

SpecPack == InitPack /\ [][NextPack]_vars

\* the place of the strictly-upper entry (r, c), r < c, when the entries are
\* listed by increasing row, then increasing column
UpperPlace(n, r, c) == (r - 1) * n - ((r * (r - 1)) \div 2) + (c - r)

\* the symmetric matrix a packed diagonal and off-diagonal stand for
Unpack(diag, offdiag, n) ==
    [r \in 1..n |-> [c \in 1..n |->
        IF r = c THEN diag[r]
        ELSE IF r < c THEN offdiag[UpperPlace(n, r, c)]
        ELSE offdiag[UpperPlace(n, c, r)]]]

\* C7: the packing writes all N diagonal entries and exactly N(N-1)/2
\* strictly-upper entries, by increasing row then column, so that unpacking
\* the two arrays gives back the symmetric matrix.
C7_PackUnpackRoundTrip ==
    pc = "done" =>
        /\ raised = "none"
        /\ Len(out.icov_diag) = loc.n_filters
        /\ 2 * Len(out.icov_offdiag) = loc.n_filters * (loc.n_filters - 1)
        /\ \A k \in 1..Len(out.icov_diag) : out.icov_diag[k] # Empty
        /\ \A m \in 1..Len(out.icov_offdiag) : out.icov_offdiag[m] # Empty
        /\ Unpack(out.icov_diag, out.icov_offdiag, loc.n_filters) = loc.inv_cur_cov_matrix

\* a packed matrix of three or more filters whose off-diagonal entries differ
C7_Witness ==
    /\ pc = "done"
    /\ loc.n_filters >= 3
    /\ out.icov_offdiag[1] # out.icov_offdiag[2]
    /\ out.icov_offdiag[2] # out.icov_offdiag[3]
    /\ out.icov_diag[1] # out.icov_diag[loc.n_filters]

(***************************************************************************)
(* Claims about the Grid Interpolator, as the specification states them    *)
(***************************************************************************)
\* __call__ has been entered with a grid
Called == sedgrid # None

\* C2: a grid whose number of flux columns differs from the number of filters
\* the spatial index was built with fails with the dimension-mismatch error
\* before any row is processed.
C2_MismatchFailsFast ==
    (Called /\ kdtree # Unset /\ kdtree.m # sedgrid.ncols) =>
        (pc = "raised" /\ raised = "AttributeError: filters")

RowWritten(r) ==
    /\ out.sigmas[r] # Empty
    /\ out.q_norm[r] # Empty
    /\ out.icov_diag[r] # Empty
    /\ out.icov_offdiag[r] # Empty

\* C3: on a grid of M rows with a matching filter count the loop processes
\* the row indices 0..M-1 and no other, and when it has finished the outputs
\* of all M rows are written.
C3_EveryRowProcessed ==
    (Called /\ kdtree # Unset /\ kdtree.m = sedgrid.ncols /\ out # None) =>
        /\ raised # "IndexError: flux"
        /\ pc \in {"queried", "averaged"} => i < Len(sedgrid.seds)
        /\ (i >= DebugNModels \/ raised = "NameError: sigma") =>
              \A r \in 1..Len(sedgrid.seds) : RowWritten(r)

\* C4: when the loop has completed, __call__ returns normally, and the sigma
\* of the returned tuple is the array the loop filled.
C4_ReturnsPopulatedSigmas ==
    (Called /\ out # None /\ i >= DebugNModels /\ pc # "loop") =>
        /\ raised = "none"
        /\ results # None
        /\ results[2] = out.sigmas

\* C8: a row whose interpolated covariance cannot be inverted, or has a
\* non-positive determinant, does not end the batch and is not recorded as an
\* ordinary normalization.
C8_DegenerateRowIsFlagged ==
    Called =>
        /\ raised # "LinAlgError"
        /\ (pc = "loop" /\ i > 0 /\ loc.warned) =>
              "neg_half_ln" \notin DOMAIN out.q_norm[i]

\* C9: with K retained models, 1 <= K < 10, a query uses K neighbours: every
\* neighbour index is in 0..K-1 and every neighbour distance is finite.
C9_NeighbourCountIsMinTenK ==
    (pc = "queried" /\ kdtree.n >= 1 /\ kdtree.n < NNeighbors) =>
        /\ Len(loc.indxs) = kdtree.n
        /\ \A j \in 1..Len(loc.indxs) :
              loc.indxs[j] \in 0..(kdtree.n - 1) /\ IsFinite(loc.dist[j])

\* C10: the neighbour weights are finite and sum to 1, also for a row at
\* distance 0 of an indexed model.
C10_WeightsFiniteSumToOne ==
    pc = "queried" =>
        /\ \A j \in 1..Len(loc.dist_weights) : IsFinite(loc.dist_weights[j])
        /\ XSum(loc.dist_weights) = R(1)

====
